---- MODULE Spec2Model ----
(***************************************************************************)
(* Model of the inventory tool (inv.py, common/base.py, common/parser.py): *)
(* the Item tree, the identifier codec, the document parser and renderer,  *)
(* the resolver search_item and the commands format, hoist, unhoist, move. *)
(*                                                                         *)
(* Text is a sequence of one-character strings.  A document is a sequence  *)
(* of lines as the markup converter (markdown + BeautifulSoup, which are   *)
(* not part of the repository) hands them to the parser: list-item lines   *)
(* with a nesting depth and their inline nodes, level-1 headings, and      *)
(* other top-level nodes.                                                  *)
(***************************************************************************)
EXTENDS Integers, Sequences, FiniteSets, TLC

(***************************************************************************)
(* Text helpers (Python str methods used by the code).                     *)
(***************************************************************************)
UpperLetters ==
  <<"A","B","C","D","E","F","G","H","I","J","K","L","M","N","O","P","Q","R","S","T","U","V","W","X","Y","Z">>

LowerLetters ==
  <<"a","b","c","d","e","f","g","h","i","j","k","l","m","n","o","p","q","r","s","t","u","v","w","x","y","z">>

Whitespace == {" ", "\t"}

SetMin(S) == CHOOSE x \in S : \A y \in S : x <= y

SetMax(S) == CHOOSE x \in S : \A y \in S : x >= y

LowerOf ==
  [c \in {UpperLetters[k] : k \in 1..Len(UpperLetters)} |->
     LowerLetters[CHOOSE k \in 1..Len(UpperLetters) : UpperLetters[k] = c]]

\* str.lower() on one character
LowerChar(c) == IF c \in DOMAIN LowerOf THEN LowerOf[c] ELSE c

\* str.lower()
Lower(s) == [i \in 1..Len(s) |-> LowerChar(s[i])]

\* str.startswith(p)
StartsWith(s, p) == Len(p) <= Len(s) /\ SubSeq(s, 1, Len(p)) = p

\* str.removeprefix(p)
RemovePrefix(s, p) == IF StartsWith(s, p) THEN SubSeq(s, Len(p) + 1, Len(s)) ELSE s

\* str.strip()
Strip(s) ==
  LET keep == {i \in 1..Len(s) : s[i] \notin Whitespace}
  IN  IF keep = {} THEN <<>> ELSE SubSeq(s, SetMin(keep), SetMax(keep))

(***************************************************************************)
(* Identifier codec.  A uuid.UUID is its 32 hexadecimal digits (nibbles).  *)
(***************************************************************************)
CanonLen == 36

ShortLen == 22

HexLen == 32

HexDigits == <<"0","1","2","3","4","5","6","7","8","9","a","b","c","d","e","f">>

B64Alphabet ==
  <<"A","B","C","D","E","F","G","H","I","J","K","L","M","N","O","P","Q","R","S","T","U","V","W","X","Y","Z","a","b","c","d","e","f","g","h","i","j","k","l","m","n","o","p","q","r","s","t","u","v","w","x","y","z","0","1","2","3","4","5","6","7","8","9","-","_">>

UuidScheme == <<"u","u","i","d",":">>

\* Item.uuid = None
None == <<>>

Invalid == [ok |-> FALSE, val |-> None]

\* the value of a hexadecimal digit, as int(hex, 16) reads it
HexValOf ==
  [c \in {HexDigits[k] : k \in 1..Len(HexDigits)} |->
     (CHOOSE k \in 1..Len(HexDigits) : HexDigits[k] = c) - 1]

IsHex(c) == LowerChar(c) \in DOMAIN HexValOf

HexVal(c) == HexValOf[LowerChar(c)]

\* urlsafe_b64decode maps "-" and "_" to "+" and "/" and then decodes, so
\* all four are data characters; any other character is discarded, which
\* leaves too few characters for 16 bytes
B64ValOf ==
  [c \in {B64Alphabet[k] : k \in 1..Len(B64Alphabet)} \cup {"+", "/"} |->
     IF c = "+" THEN 62
     ELSE IF c = "/" THEN 63
     ELSE (CHOOSE k \in 1..Len(B64Alphabet) : B64Alphabet[k] = c) - 1]

IsB64(c) == c \in DOMAIN B64ValOf

B64Val(c) == B64ValOf[c]

\* str(uuid): 8-4-4-4-12 lower-case hexadecimal digits; str(None) is "None"
UuidStr(u) ==
  IF u = None THEN <<"N","o","n","e">>
  ELSE LET h == [i \in 1..HexLen |-> HexDigits[u[i] + 1]]
       IN  SubSeq(h, 1, 8) \o <<"-">> \o SubSeq(h, 9, 12) \o <<"-">> \o SubSeq(h, 13, 16)
             \o <<"-">> \o SubSeq(h, 17, 20) \o <<"-">> \o SubSeq(h, 21, 32)

\* uuid.UUID(ref): hyphens are dropped, 32 hexadecimal digits must remain
UuidFromHex(ref) ==
  LET h == SelectSeq(ref, LAMBDA c : c # "-")
  IN  IF Len(h) = HexLen /\ \A i \in 1..Len(h) : IsHex(h[i])
      THEN [ok |-> TRUE, val |-> [i \in 1..HexLen |-> HexVal(h[i])]]
      ELSE Invalid

\* uuid.UUID(bytes=urlsafe_b64decode(ref + "==")): two characters carry
\* three nibbles; the 33rd nibble is padding and is dropped
UuidFromB64(ref) ==
  IF \A i \in 1..Len(ref) : IsB64(ref[i])
  THEN [ok |-> TRUE,
        val |-> [i \in 1..HexLen |->
                   LET p  == (i - 1) \div 3
                       v1 == B64Val(ref[2 * p + 1])
                       v2 == B64Val(ref[2 * p + 2])
                   IN  CASE (i - 1) % 3 = 0 -> v1 \div 4
                         [] (i - 1) % 3 = 1 -> (v1 % 4) * 4 + v2 \div 16
                         [] OTHER           -> v2 % 16]]
  ELSE Invalid

\* parse_uuid: ok = FALSE stands for ValueError
ParseUuid(ref) ==
  LET r == RemovePrefix(ref, UuidScheme)
  IN  IF Len(r) = CanonLen THEN UuidFromHex(r)
      ELSE IF Len(r) = ShortLen THEN UuidFromB64(r)
      ELSE Invalid

(***************************************************************************)
(* Tree model.  A tree is a record of sequences indexed by item: item k    *)
(* is the k-th Item object created, Root is the synthetic root.            *)
(***************************************************************************)
Root == 1

NoParent == 0

RootName == <<"r","o","o","t">>

\* Item("root")
NewTree ==
  [name |-> <<RootName>>, uuid |-> <<None>>, hoisted |-> <<FALSE>>,
   children |-> << <<>> >>, parent |-> <<NoParent>>]

Items(t) == 1..Len(t.name)

\* Item(nm, hoisted=h) with uuid u, appended to the children of item p
AddItem(t, p, nm, h, u) ==
  LET id == Len(t.name) + 1
  IN  [name |-> Append(t.name, nm), uuid |-> Append(t.uuid, u),
       hoisted |-> Append(t.hoisted, h),
       children |-> Append([t.children EXCEPT ![p] = Append(@, id)], <<>>),
       parent |-> Append(t.parent, NoParent)]

RECURSIVE UpdateParentsList(_, _, _)
\* update_parents(i), after the first k children of i were handled
UpdateParentsList(t, i, k) ==
  IF k > Len(t.children[i]) THEN t
  ELSE LET c  == t.children[i][k]
           t1 == [t EXCEPT !.parent[c] = i]
       IN  UpdateParentsList(UpdateParentsList(t1, c, 1), i, k + 1)

UpdateParents(t, i) == UpdateParentsList(t, i, 1)

RECURSIVE FlattenQueue(_, _, _)
\* the loop of flatten with depth_first = False: q is the deque, res the result
FlattenQueue(t, q, res) ==
  IF q = <<>> THEN res
  ELSE FlattenQueue(t, Tail(q) \o t.children[Head(q)], Append(res, Head(q)))

Flatten(t, i) == FlattenQueue(t, <<i>>, <<>>)

(***************************************************************************)
(* Documents.  Inline nodes of a list item: a text node (NavigableString), *)
(* a hoist reference (<ref>, from the token [[#Name]]) and a hyperlink     *)
(* (<a href=...>).  A line is a list item at a nesting depth (one tab per  *)
(* level), a level-1 heading, or a paragraph (any other top-level node).   *)
(***************************************************************************)
Text(s) == [s |-> s, t |-> "text"]

Ref(s) == [s |-> s, t |-> "ref"]

Link(href) == [s |-> href, t |-> "a"]

Li(d, content) == [content |-> content, kind |-> "li", depth |-> d, text |-> <<>>]

H1(txt) == [content |-> <<>>, kind |-> "h1", depth |-> 0, text |-> txt]

Para == [content |-> <<>>, kind |-> "p", depth |-> 0, text |-> <<>>]

(***************************************************************************)
(* Document parser.                                                        *)
(***************************************************************************)
NoItem == [ok |-> FALSE, name |-> <<>>, uuid |-> None, hoisted |-> FALSE]

\* parse_list_item on the inline nodes of one <li> that holds nsub nested
\* lists: ok = FALSE stands for the NotImplementedError / ValueError raised
ParseListItem(contents, nsub) ==
  LET strings == SelectSeq(contents, LAMBDA e : e.t = "text")
      refs    == SelectSeq(contents, LAMBDA e : e.t = "ref")
      links   == SelectSeq(contents, LAMBDA e : e.t = "a")
      uuids   == [k \in 1..Len(links) |-> ParseUuid(links[k].s)]
  IN  IF \E k \in 1..Len(uuids) : ~uuids[k].ok THEN NoItem
      ELSE IF Len(refs) # 1 /\ Len(strings) # 1 THEN NoItem
      ELSE IF nsub > 1 THEN NoItem
      ELSE IF Len(uuids) > 1 THEN NoItem
      ELSE [ok |-> TRUE,
            name |-> IF Len(refs) = 1 THEN Strip(refs[1].s) ELSE Strip(strings[1].s),
            uuid |-> IF Len(uuids) = 1 THEN uuids[1].val ELSE None,
            hoisted |-> Len(refs) = 1]

\* the nested lists of line k of the document: the lines below it that are
\* one level deeper form one <ul>
SubLists(doc, k) ==
  IF k < Len(doc) /\ doc[k + 1].kind = "li" /\ doc[k + 1].depth > doc[k].depth THEN 1 ELSE 0

\* state of parse_inventory_file before the first node: hoists = {},
\* root = Item("root"), cur_root = root; path is the chain of open list items
ParseStart ==
  [ok |-> TRUE, t |-> NewTree, hoists |-> [n \in {} |-> Root], cur |-> Root, path |-> <<>>]

\* one node of the document: a list item (parse_list / parse_list_item), a
\* heading (cur_root = hoists[e.text], KeyError when absent) or anything else
\* (NotImplementedError).  A list item deeper than one level below the open
\* item is not a list item to the markup converter; documents hold none.
ParseLine(st, doc, k) ==
  LET ln == doc[k]
  IN  IF ~st.ok THEN st
      ELSE IF ln.kind = "li" THEN
        LET it == ParseListItem(ln.content, SubLists(doc, k))
            id == Len(st.t.name) + 1
            p  == IF ln.depth = 0 THEN st.cur ELSE st.path[ln.depth]
        IN  IF ~it.ok \/ ln.depth > Len(st.path) THEN [st EXCEPT !.ok = FALSE]
            ELSE [st EXCEPT
                    !.t = AddItem(st.t, p, it.name, it.hoisted, it.uuid),
                    !.hoists = IF it.hoisted
                               THEN [n \in DOMAIN st.hoists \cup {it.name} |->
                                       IF n = it.name THEN id ELSE st.hoists[n]]
                               ELSE st.hoists,
                    !.path = Append(SubSeq(st.path, 1, ln.depth), id)]
      ELSE IF ln.kind = "h1" THEN
        IF ln.text \in DOMAIN st.hoists
        THEN [st EXCEPT !.cur = st.hoists[ln.text], !.path = <<>>]
        ELSE [st EXCEPT !.ok = FALSE]
      ELSE [st EXCEPT !.ok = FALSE]

RECURSIVE ParseLines(_, _, _)
ParseLines(st, doc, k) ==
  IF k > Len(doc) THEN st ELSE ParseLines(ParseLine(st, doc, k), doc, k + 1)

\* parse_inventory_file: ok = FALSE stands for the exception raised; the
\* tree is returned after update_parents(root)
ParseInventoryFile(doc) ==
  LET st == ParseLines(ParseStart, doc, 1)
  IN  [ok |-> st.ok, t |-> IF st.ok THEN UpdateParents(st.t, Root) ELSE NewTree]

(***************************************************************************)
(* Document renderer.                                                      *)
(***************************************************************************)
\* what render_item writes for item i before the line terminator, as inline
\* nodes: the blank of " [](uuid:...)" joins the name's text node, or is a
\* text node of its own after a hoist reference
ItemContent(nm, h, u) ==
  IF h
  THEN IF u = None THEN <<Ref(nm)>>
       ELSE <<Ref(nm), Text(<<" ">>), Link(UuidScheme \o UuidStr(u))>>
  ELSE IF u = None THEN <<Text(nm)>>
       ELSE <<Text(nm \o <<" ">>), Link(UuidScheme \o UuidStr(u))>>

RECURSIVE RenderItem(_, _, _)
RECURSIVE RenderItems(_, _, _, _)
\* render_item for the items cs[k..] at the same depth
RenderItems(t, cs, k, depth) ==
  IF k > Len(cs) THEN <<>>
  ELSE RenderItem(t, cs[k], depth) \o RenderItems(t, cs, k + 1, depth)

\* a renderer that also writes the children of a hoisted item in place
RenderItemInline(t, i, depth) ==
  <<Li(depth, ItemContent(t.name[i], t.hoisted[i], t.uuid[i]))>>
    \o RenderItems(t, t.children[i], 1, depth + 1)

RenderItem(t, i, depth) ==
  <<Li(depth, ItemContent(t.name[i], t.hoisted[i], t.uuid[i]))>>
    \o (IF t.hoisted[i] THEN <<>> ELSE RenderItems(t, t.children[i], 1, depth + 1))

RECURSIVE RenderSections(_, _, _)
\* the sections of the hoisted items hs[k..]: "\n# name\n", then the children
RenderSections(t, hs, k) ==
  IF k > Len(hs) THEN <<>>
  ELSE <<H1(t.name[hs[k]])>> \o RenderItems(t, t.children[hs[k]], 1, 0)
         \o RenderSections(t, hs, k + 1)

\* everything save_inventory_file writes, in order
SaveInventoryFile(t) ==
  RenderItems(t, t.children[Root], 1, 0)
    \o RenderSections(t, SelectSeq(Flatten(t, Root), LAMBDA h : t.hoisted[h]), 1)

(***************************************************************************)
(* Resolver.                                                               *)
(***************************************************************************)
NameFloor == 4

Found(i) == [item |-> i, ok |-> TRUE, err |-> "none"]

Raised(e) == [item |-> NoParent, ok |-> FALSE, err |-> e]

\* search_item: the item found, or the exception that leaves the function
SearchItem(s, t) ==
  LET id   == ParseUuid(s)
      all  == Flatten(t, Root)
      low  == Lower(s)
      hit  == SelectSeq(all, LAMBDA i : t.uuid[i] = id.val)
      uuid_candidates == SelectSeq(all, LAMBDA i : StartsWith(UuidStr(t.uuid[i]), low))
      name_candidates == SelectSeq(all, LAMBDA i : StartsWith(Lower(t.name[i]), low))
  IN  IF id.ok
      THEN IF hit # <<>> THEN Found(hit[1]) ELSE Raised("StopIteration")
      ELSE IF Len(uuid_candidates) = 1 THEN Found(uuid_candidates[1])
      ELSE IF Len(name_candidates) = 1 /\ Len(s) > NameFloor THEN Found(name_candidates[1])
      ELSE Raised("ValueError")

(***************************************************************************)
(* Commands.  The result of a command function: ok = FALSE with the        *)
(* exception raised, or the tree it leaves; found lists what search_item   *)
(* returned.                                                               *)
(***************************************************************************)
Done(t, fnd) == [ok |-> TRUE, t |-> t, err |-> "none", found |-> fnd]

Failed(e, t, fnd) == [ok |-> FALSE, t |-> t, err |-> e, found |-> fnd]

RECURSIVE ItemEq(_, _, _)
\* Item.__eq__ as list.remove applies it (identity first): the dataclass
\* compares (name, uuid, children, parent, hoisted) in this order
ItemEq(t, a, b) ==
  \/ a = b
  \/ /\ a # NoParent
     /\ b # NoParent
     /\ t.name[a] = t.name[b]
     /\ t.uuid[a] = t.uuid[b]
     /\ Len(t.children[a]) = Len(t.children[b])
     /\ \A k \in 1..Len(t.children[a]) : ItemEq(t, t.children[a][k], t.children[b][k])
     /\ ItemEq(t, t.parent[a], t.parent[b])
     /\ t.hoisted[a] = t.hoisted[b]

\* list.remove(item): the list without its first element equal to item
Remove(t, cs, item) ==
  LET k == SetMin({j \in 1..Len(cs) : ItemEq(t, cs[j], item)})
  IN  SubSeq(cs, 1, k - 1) \o SubSeq(cs, k + 1, Len(cs))

\* the func of the format command: lambda *a, **b: True
Format(t) == Done(t, <<>>)

Hoist(q, t) ==
  LET i == SearchItem(q, t)
  IN  IF ~i.ok THEN Failed(i.err, t, <<>>)
      ELSE Done([t EXCEPT !.hoisted[i.item] = TRUE], <<i.item>>)

Unhoist(q, t) ==
  LET i == SearchItem(q, t)
  IN  IF ~i.ok THEN Failed(i.err, t, <<>>)
      ELSE Done([t EXCEPT !.hoisted[i.item] = FALSE], <<i.item>>)

\* move: item.parent.children raises AttributeError when item.parent is None
Move(q, qinto, t) ==
  LET item == SearchItem(q, t)
      into == SearchItem(qinto, t)
  IN  IF ~item.ok THEN Failed(item.err, t, <<>>)
      ELSE IF ~into.ok THEN Failed(into.err, t, <<item.item>>)
      ELSE LET t1 == [t EXCEPT !.children[into.item] = Append(@, item.item)]
               p  == t.parent[item.item]
           IN  IF p = NoParent THEN Failed("AttributeError", t1, <<item.item, into.item>>)
               ELSE Done(UpdateParents([t1 EXCEPT !.children[p] = Remove(t1, @, item.item)], Root),
                         <<item.item, into.item>>)

(***************************************************************************)
(* The program: one run of __main__ per command.                           *)
(***************************************************************************)
NoCmd == [item |-> <<>>, into |-> <<>>, func |-> "none"]

\* args.func(args, tree)
RunFunc(c, t) ==
  CASE c.func = "format"  -> Format(t)
    [] c.func = "hoist"   -> Hoist(c.item, t)
    [] c.func = "unhoist" -> Unhoist(c.item, t)
    [] c.func = "move"    -> Move(c.item, c.into, t)

\* a __main__ that writes the tree back whatever the command function did
MainSaveAlways(doc, c) ==
  LET p == ParseInventoryFile(doc)
      r == RunFunc(c, p.t)
  IN  IF ~p.ok
      THEN [found |-> <<>>, outcome |-> "parse_error", tree |-> NewTree, save |-> FALSE,
            lines |-> <<>>]
      ELSE [found |-> r.found, outcome |-> IF r.ok THEN "saved" ELSE r.err, tree |-> r.t,
            save |-> TRUE, lines |-> SaveInventoryFile(r.t)]

\* __main__ up to the call of save_inventory_file: the outcome so far, the
\* tree in memory, and the lines save_inventory_file is about to write
Main(doc, c) ==
  LET p == ParseInventoryFile(doc)
      r == RunFunc(c, p.t)
  IN  IF ~p.ok
      THEN [found |-> <<>>, outcome |-> "parse_error", tree |-> NewTree, save |-> FALSE,
            lines |-> <<>>]
      ELSE IF ~r.ok
      THEN [found |-> r.found, outcome |-> r.err, tree |-> r.t, save |-> FALSE,
            lines |-> <<>>]
      ELSE [found |-> r.found, outcome |-> "saved", tree |-> r.t, save |-> TRUE,
            lines |-> SaveInventoryFile(r.t)]

(***************************************************************************)
(* Inputs: names, identifiers, queries and the documents a run starts on.  *)
(***************************************************************************)
MaxLines == 2

NameA == <<"A","b","c","d","e","f">>

NameB == <<"1","2","3","4","X">>

\* 1234abcd-0000-4000-8000-000000000001
UuidA == <<1,2,3,4,10,11,12,13,0,0,0,0,4,0,0,0,8,0,0,0,0,0,0,0,0,0,0,0,0,0,0,1>>

\* 5678abcd-0000-4000-8000-000000000002, carried by no document
UuidAbsent == <<5,6,7,8,10,11,12,13,0,0,0,0,4,0,0,0,8,0,0,0,0,0,0,0,0,0,0,0,0,0,0,2>>

\* the 22-character form of UuidA
ShortA == <<"E","j","S","r","z","Q","A","A","Q","A","C","A","A","A","A","A","A","A","A","A","A","Q">>

Labels == {<<NameA, None>>, <<NameA, UuidA>>, <<NameB, None>>}

Queries ==
  { <<>>, <<"1","2","3","4">>, NameB, <<"a","B","C","D","E">>,
    UuidStr(UuidA), ShortA, UuidStr(UuidAbsent) }

\* the lines that may follow the document d
NextLines(d) ==
  LET deepest == IF d # <<>> /\ d[Len(d)].kind = "li" THEN d[Len(d)].depth + 1 ELSE 0
  IN  {Li(k, ItemContent(l[1], h, l[2])) : k \in 0..deepest, l \in Labels, h \in BOOLEAN}
        \cup {H1(l[1]) : l \in Labels} \cup {Para}

RECURSIVE DocsOfLen(_)
DocsOfLen(n) ==
  IF n = 0 THEN {<<>>}
  ELSE {Append(d, l) : <<d, l>> \in {x \in DocsOfLen(n - 1) \X UNION {NextLines(d) : d \in DocsOfLen(n - 1)} :
                                       x[2] \in NextLines(x[1])}}

Docs == UNION {DocsOfLen(n) : n \in 0..MaxLines}

(***************************************************************************)
(* State.                                                                  *)
(***************************************************************************)
VARIABLES
  file,      \* the persisted document (INVENTORY_FILE)
  pc,        \* "idle": no process; "exited": a run of __main__ has ended
  cmd,       \* the command line of the last run
  outcome,   \* how the last run ended
  tree,      \* the tree in memory when the last run ended
  found,     \* what search_item returned in the last run
  saving,    \* whether the last run reached save_inventory_file
  prevFile   \* the persisted document when the last run started

vars == <<file, pc, cmd, outcome, tree, found, saving, prevFile>>

Init ==
  /\ file \in Docs
  /\ pc = "idle"
  /\ cmd = NoCmd
  /\ outcome = "none"
  /\ tree = NewTree
  /\ found = <<>>
  /\ saving = FALSE
  /\ prevFile = file

\* one run of __main__ with the command line c.  save_inventory_file opens
\* the file for writing, which empties it, and writes line after line; the
\* storage may fail after any k of the lines (k = -1: it does not fail)
Run(c) ==
  /\ pc = "idle"
  /\ \E m \in {Main(file, c)} :
       /\ \E k \in -1..(Len(m.lines) - 1) :
            /\ file' = IF ~m.save THEN file
                       ELSE IF k = -1 THEN m.lines ELSE SubSeq(m.lines, 1, k)
            /\ outcome' = IF k >= 0 THEN "OSError" ELSE m.outcome
       /\ tree' = m.tree
       /\ found' = m.found
       /\ saving' = m.save
  /\ pc' = "exited"
  /\ cmd' = c
  /\ prevFile' = file

FormatCmd == Run([item |-> <<>>, into |-> <<>>, func |-> "format"])

HoistCmd == \E q \in Queries : Run([item |-> q, into |-> <<>>, func |-> "hoist"])

UnhoistCmd == \E q \in Queries : Run([item |-> q, into |-> <<>>, func |-> "unhoist"])

MoveCmd == \E q \in Queries, r \in Queries : Run([item |-> q, into |-> r, func |-> "move"])

\* the process is gone, and the tree with it; the document stays
Exit ==
  /\ pc = "exited"
  /\ pc' = "idle"
  /\ cmd' = NoCmd
  /\ outcome' = "none"
  /\ tree' = NewTree
  /\ found' = <<>>
  /\ saving' = FALSE
  /\ prevFile' = file
  /\ file' = file

Next == FormatCmd \/ HoistCmd \/ UnhoistCmd \/ MoveCmd \/ Exit

Spec == Init /\ [][Next]_vars

(***************************************************************************)
(* A second specification for parse_list_item alone: the program starts on *)
(* a document of one list item whose inline nodes are any short sequence   *)
(* of text nodes, hoist references and hyperlinks.                         *)
(***************************************************************************)
MaxNodes == 3

InlineNodes ==
  {Text(NameA), Text(<<" ">>), Ref(NameB), Link(UuidScheme \o UuidStr(UuidA))}

LiContents == UNION {[1..n -> InlineNodes] : n \in 0..MaxNodes}

InitLi ==
  /\ file \in {<<Li(0, c)>> : c \in LiContents}
  /\ pc = "idle"
  /\ cmd = NoCmd
  /\ outcome = "none"
  /\ tree = NewTree
  /\ found = <<>>
  /\ saving = FALSE
  /\ prevFile = file

SpecLi == InitLi /\ [][Next]_vars

(***************************************************************************)
(* Properties.                                                             *)
(***************************************************************************)
\* the tree the last run parsed
Before == ParseInventoryFile(prevFile).t

Ran == pc = "exited"

\* the last run got as far as the whole command function without an exception
FuncDone == Ran /\ outcome \in {"saved", "OSError"}

Range(seq) == {seq[k] : k \in 1..Len(seq)}

Occurrences(seq, x) == Cardinality({k \in 1..Len(seq) : seq[k] = x})

RECURSIVE SameSubtree(_, _, _, _)
\* item i of tree t and item j of tree u agree in name, identifier, hoisted
\* flag and, child by child in order, in their subtrees
SameSubtree(t, i, u, j) ==
  /\ t.name[i] = u.name[j]
  /\ t.uuid[i] = u.uuid[j]
  /\ t.hoisted[i] = u.hoisted[j]
  /\ Len(t.children[i]) = Len(u.children[j])
  /\ \A k \in 1..Len(t.children[i]) : SameSubtree(t, t.children[i][k], u, u.children[j][k])

HoistNamesUnique(t) ==
  \A i, j \in Items(t) : (t.hoisted[i] /\ t.hoisted[j] /\ t.name[i] = t.name[j]) => i = j

\* C1: a tree the parser produced in which no two hoist references share a
\* name, saved by save_inventory_file and parsed again, gives a tree equal at
\* every node in name, identifier, hoisted flag and order of children.
RoundTrip ==
  (Ran /\ cmd.func = "format" /\ outcome = "saved" /\ HoistNamesUnique(tree))
    => \E again \in {ParseInventoryFile(file)} :
         again.ok /\ SameSubtree(tree, Root, again.t, Root)

\* a format run that rewrote the document of a tree with a hoisted item that
\* has children and an item that carries an identifier
RoundTripWitness ==
  /\ Ran /\ cmd.func = "format" /\ outcome = "saved" /\ HoistNamesUnique(tree)
  /\ file # prevFile
  /\ \E i \in Items(tree) : tree.hoisted[i] /\ tree.children[i] # <<>>
  /\ \E i \in Items(tree) : tree.uuid[i] # None

\* C2: move(item, into) on an item that has a parent, whatever into is:
\* the item is gone from its prior parent's children, is the last child of
\* into (once), and its parent is into after update_parents.
MoveSemantics ==
  (Ran /\ cmd.func = "move" /\ Len(found) = 2 /\ Before.parent[found[1]] # NoParent)
    => /\ FuncDone
       /\ \E item \in {found[1]}, into \in {found[2]}, prior \in {Before.parent[found[1]]} :
            /\ prior # into => item \notin Range(tree.children[prior])
            /\ tree.children[into] # <<>>
            /\ tree.children[into][Len(tree.children[into])] = item
            /\ Occurrences(tree.children[into], item) = 1
            /\ tree.parent[item] = into

\* C3: after parsing and after any command function the items form one tree
\* rooted at the root: every other item is in exactly one children sequence
\* exactly once, the root is in none, and every item is reachable from the
\* root (so none is lost and none is its own ancestor).
OwnershipInvariant ==
  FuncDone =>
    /\ \A i \in Items(tree) \ {Root} :
         Cardinality({pk \in {<<p, k>> \in Items(tree) \X (1..Len(tree.name)) :
                                 k <= Len(tree.children[p])} :
                        tree.children[pk[1]][pk[2]] = i}) = 1
    /\ \A p \in Items(tree) : Root \notin Range(tree.children[p])
    /\ Range(Flatten(tree, Root)) = Items(tree)
    /\ Items(tree) = Items(Before)

\* C4: when writing fails after save_inventory_file has started, the
\* persisted document is what it was before the command.
AtomicPersistence == (Ran /\ outcome = "OSError") => file = prevFile

\* a text node with something in it besides blanks
IsLabel(e) == e.t = "text" /\ Strip(e.s) # <<>>

\* C5: parse_list_item accepts a list item exactly when it holds a single
\* text label and no hoist reference, or a single hoist reference and no
\* text label (stated for list items whose text nodes are all labels and
\* that hold at most one hyperlink, which decodes).
ListItemShape ==
  (Ran /\ Len(prevFile) = 1 /\ prevFile[1].kind = "li"
       /\ \A k \in 1..Len(prevFile[1].content) :
            prevFile[1].content[k].t = "text" => IsLabel(prevFile[1].content[k])
       /\ Len(SelectSeq(prevFile[1].content, LAMBDA e : e.t = "a")) <= 1)
    => ((outcome # "parse_error")
          <=> \E labels \in {Len(SelectSeq(prevFile[1].content, IsLabel))},
                 refs \in {Len(SelectSeq(prevFile[1].content, LAMBDA e : e.t = "ref"))} :
                (labels = 1 /\ refs = 0) \/ (labels = 0 /\ refs = 1))

\* the items of t whose identifier, in canonical text, starts with the
\* lower-cased query
IdPrefixItems(q, t) ==
  {i \in Items(t) : t.uuid[i] # None /\ StartsWith(UuidStr(t.uuid[i]), Lower(q))}

\* the last run resolved cmd.item as its first query, on a parsed document
Resolved == Ran /\ cmd.func # "format" /\ ParseInventoryFile(prevFile).ok

\* C6: for a query that is no full identifier, when exactly one item's
\* canonical identifier text starts with the lower-cased query, search_item
\* returns that item, whatever the names are.
IdentifierPrecedence ==
  (Resolved /\ ~ParseUuid(cmd.item).ok /\ Cardinality(IdPrefixItems(cmd.item, Before)) = 1)
    => (found # <<>> /\ found[1] \in IdPrefixItems(cmd.item, Before))

\* C7: for a query of length 4 or less that is no full identifier,
\* search_item returns an item only when it is the one item whose identifier
\* text starts with the query; a name match never decides.
ShortFragmentGuard ==
  (Resolved /\ ~ParseUuid(cmd.item).ok /\ Len(cmd.item) <= NameFloor /\ found # <<>>)
    => IdPrefixItems(cmd.item, Before) = {found[1]}

\* the lines of doc under the heading at line k, up to the next heading
Section(doc, k) ==
  LET later == {j \in (k + 1)..Len(doc) : doc[j].kind # "li"}
  IN  SubSeq(doc, k + 1, IF later = {} THEN Len(doc) ELSE SetMin(later) - 1)

\* C8: every hoisted item X of the saved tree has its reference line in the
\* document with nothing nested under it, and exactly one section headed by
\* its name, after that line, which lists X's children in order and nothing
\* else; parsing the document again gives an item equal to X in its whole
\* subtree.  (Stated for trees whose root is not hoisted.)
HoistRendering ==
  (Ran /\ outcome = "saved" /\ ~tree.hoisted[Root]) =>
    \A x \in Range(Flatten(tree, Root)) :
      tree.hoisted[x] =>
        /\ \E heads \in {{k \in 1..Len(file) : file[k].kind = "h1" /\ file[k].text = tree.name[x]}} :
             /\ Cardinality(heads) = 1
             /\ \A k \in heads :
                  /\ Section(file, k) = RenderItems(tree, tree.children[x], 1, 0)
                  /\ \E r \in 1..(k - 1) :
                       /\ file[r].kind = "li"
                       /\ file[r].content = ItemContent(tree.name[x], TRUE, tree.uuid[x])
                       /\ file[r + 1].kind = "li" => file[r + 1].depth <= file[r].depth
        /\ \E again \in {ParseInventoryFile(file)} :
             again.ok /\ \E j \in Items(again.t) : SameSubtree(tree, x, again.t, j)

\* the last run failed for one of the reasons of C9: the document does not
\* parse, search_item raises for a query the command resolves, or move is
\* called on an item without a parent
FailureCase ==
  /\ Ran
  /\ \E p \in {ParseInventoryFile(prevFile)} :
       \/ ~p.ok
       \/ /\ cmd.func # "format"
          /\ \E item \in {SearchItem(cmd.item, p.t)} :
               \/ ~item.ok
               \/ /\ cmd.func = "move"
                  /\ \/ ~SearchItem(cmd.into, p.t).ok
                     \/ p.t.parent[item.item] = NoParent

\* C9: a command that fails for one of these reasons ends in an error, never
\* reaches save_inventory_file, and leaves the persisted document as it was.
FailedCommandsWriteNothing ==
  FailureCase =>
    /\ outcome \in {"parse_error", "ValueError", "StopIteration", "AttributeError"}
    /\ ~saving
    /\ file = prevFile

\* a move of the item without a parent: the run ends in the AttributeError
FailedMoveWitness ==
  /\ FailureCase
  /\ cmd.func = "move"
  /\ outcome = "AttributeError"
  /\ found = <<Root, Root>>
  /\ file = prevFile

\* C10: search_item never returns the root, so no command acts on it and it
\* is never hoisted.
NeverRoot == Ran => (Root \notin Range(found) /\ ~tree.hoisted[Root])

====
